---- MODULE Spec2Model ----
(***************************************************************************)
(* eksi_rss: a Flask service that turns an Eksi Sozluk topic into an RSS   *)
(* feed and keeps a list of subscribed topics in abonelikler.json.         *)
(*                                                                         *)
(* The module holds four specifications over one set of variables:         *)
(*   SpecStore  feed_ekle / feed_kaldir requests of two server threads,    *)
(*              each split at its load and its save of abonelikler.json    *)
(*   SpecFeed   baslik_icin_feed_olustur behind the id and search routes   *)
(*   SpecHepsi  tum_feedler looping over the stored subscriptions          *)
(*   SpecCache  eksi_sayfasi_al behind @onbellek.memoize(timeout=900)      *)
(* Variables a specification does not use keep their initial value.        *)
(***************************************************************************)
EXTENDS Integers, Sequences, FiniteSets, TLC

VARIABLES
    dosya,          \* content of abonelikler.json: a sequence of records
    pc,             \* per request thread: "bosta" | "ekle" | "kaldir"
    abonelikler,    \* per request thread: the list it loaded (its local copy)
    bekleyen,       \* per request thread: the record to add / the id to remove
    son,            \* the last completed store request: what it did
    f_pc,           \* baslik_icin_feed_olustur: "bosta" | "cozumleme" |
                    \*   "sayfalama" | "bitti"
    rota,           \* the caller: "yok" | "id" | "arama" | "hepsi"
    istek,          \* <<(baslik_url, baslik_id)>> until resolved, else <<>>
    max_sayfa,      \* the max_sayfa argument
    baslik,         \* <<(baslik_metni, baslik_id, son_url)>> once resolved
    sayfa,          \* the loop variable: the page being fetched
    fg,             \* the FeedGenerator's entry list, first to last
    alinanlar,      \* every eksi_sayfasi_al call made so far, in order
    gecmis,         \* the pages the site answered with, in order
    konu_yaniti,    \* <<the topic page the site answered with>>, else <<>>
    f_sonuc,        \* what the function returned: "yok" | "feed" | "None" |
                    \*   "istisna" (an exception left it)
    http,           \* the route's answer: "yok" | "200" | "500"
    h_pc,           \* tum_feedler: "bosta" | "dongu" | "bekle" | "bitti"
    h_liste,        \* tum_feedler: the list it loaded
    h_i,            \* tum_feedler: index of the subscription being merged
    h_fg,           \* tum_feedler: the combined feed's entry list
    h_sonuclar,     \* what baslik_icin_feed_olustur gave per subscription
    h_cevap,        \* tum_feedler's answer: "yok" | "200" | "500"
    saat,           \* time(), in seconds
    onbellek,       \* the SimpleCache: per URL <<>> or <<[yanit, bitis]>>
    surum,          \* per URL: the version of the page the site now serves
    c_pc,           \* per thread in eksi_sayfasi_al: "bosta" | "sitede"
    c_url,          \* per thread: the URL it is fetching
    c_son,          \* <<the last call of eksi_sayfasi_al that began>>
    tamamlanan      \* per URL: the fetches that succeeded, in order

storeVars == <<dosya, pc, abonelikler, bekleyen, son>>

feedVars == <<f_pc, rota, istek, max_sayfa, baslik, sayfa, fg, alinanlar,
              gecmis, konu_yaniti, f_sonuc, http>>

hepsiVars == <<h_pc, h_liste, h_i, h_fg, h_sonuclar, h_cevap>>

cacheVars == <<saat, onbellek, surum, c_pc, c_url, c_son, tamamlanan>>

vars == <<storeVars, feedVars, hepsiVars, cacheVars>>

None == "None"

(***************************************************************************)
(* Input alphabets.                                                        *)
(***************************************************************************)
Ids == {"101", "202"}
Basliklar == {"a", "b"}
Procs == {"t1", "t2"}

\* Python truthiness of a str-or-None value: None and "" are falsy.
Falsy(x) == x = None \/ x = ""

(***************************************************************************)
(* URLs.  A URL is a record: tur says which shape it has, kimlik is the    *)
(* number after "--" (or after /baslik/) when the text carries one.        *)
(***************************************************************************)
Url(tur, kimlik) == [tur |-> tur, kimlik |-> kimlik]

\* re.search(r'--(\d+)', s): the digits after "--", or None
TireliKimlik(url) == IF url.tur = "slug" THEN url.kimlik ELSE None

Girdiler ==
    {[tur |-> "bos", kimlik |-> None]}
    \cup [tur : {"url_slug", "sayi", "slug"}, kimlik : Ids]
    \cup {[tur |-> "url", kimlik |-> None], [tur |-> "arama", kimlik |-> None]}

\* baslik_url_ayristir(girdi) -> (url, baslik_id)
BaslikUrlAyristir(girdi) ==
    CASE girdi.tur = "url_slug" -> <<Url("slug", girdi.kimlik), girdi.kimlik>>
      [] girdi.tur = "url"      -> <<Url("diger", None), None>>
      [] girdi.tur = "sayi"     -> <<Url("baslik", girdi.kimlik), girdi.kimlik>>
      [] girdi.tur = "slug"     -> <<Url("slug", girdi.kimlik), girdi.kimlik>>
      [] OTHER                  -> <<Url("arama", None), None>>

(***************************************************************************)
(* A fetched topic page: whether h1#title is there, its text, its data-id  *)
(* attribute, and the final URL after redirects.                           *)
(***************************************************************************)
KonuSayfalari(i, metinler) ==
    [h1 : BOOLEAN, metin : metinler \cup {""}, data_id : {i, None},
     son_url : {Url("slug", i)}]

KimliksizSayfalar(metinler) ==
    [h1 : BOOLEAN, metin : metinler \cup {""}, data_id : {None},
     son_url : {Url("diger", None)}]

\* What the site can answer for a URL: a URL that names topic i is answered
\* (after the redirect to the canonical /slug--i) by a page of topic i; a
\* URL that names none is answered by any topic's page or by a page that
\* identifies no topic.
BaslikYanitlari(url, metinler) ==
    IF url.kimlik # None THEN KonuSayfalari(url.kimlik, metinler)
    ELSE KimliksizSayfalar(metinler)
         \cup UNION {KonuSayfalari(i, metinler) : i \in Ids}

\* baslik_bilgisi_al after a successful fetch -> [metin, id, slug, son_url]
BaslikBilgisiAl(yanit, baslik_id) ==
    IF ~yanit.h1
    THEN [metin |-> None, id |-> None, slug |-> None,
          son_url |-> Url("yok", None)]
    ELSE LET kimlik == IF ~Falsy(baslik_id) THEN baslik_id
                       ELSE IF ~Falsy(yanit.data_id) THEN yanit.data_id
                       ELSE TireliKimlik(yanit.son_url)
         IN [metin |-> yanit.metin, id |-> kimlik,
             slug |-> IF yanit.son_url.tur = "slug" THEN "slug" ELSE None,
             son_url |-> yanit.son_url]

(***************************************************************************)
(* The subscription store.                                                 *)
(***************************************************************************)
VarMi(liste, kimlik) == \E i \in 1..Len(liste) : liste[i].id = kimlik

\* The record feed_ekle appends.  Its ekleme_tarihi (the time of the add) is
\* left out: it is written with the record and never read.
Abone(bilgi) ==
    [id |-> bilgi.id, baslik |-> bilgi.metin, url |-> bilgi.son_url,
     slug |-> bilgi.slug]

\* The identifiers a subscription list holds
Kimlikler(liste) == {liste[i].id : i \in 1..Len(liste)}

\* What a save undoes of other requests' work: the identifiers, other than
\* the saving request's own, that the file held and the saved list does not,
\* or the reverse.  abonelikleri_kaydet opens the file with 'w' and dumps the
\* request's list, whatever the file held.
Ezilen(once, sonra, kimlik) ==
    {k \in (Kimlikler(once) \cup Kimlikler(sonra)) \ {kimlik} :
        (k \in Kimlikler(once)) # (k \in Kimlikler(sonra))}

\* feed_ekle appending to the file's content of the moment instead of the
\* list it loaded (a read-modify-write under a lock)
EkleSonrasiBirlestir(simdiki, liste, kayit) ==
    IF VarMi(liste, kayit.id) THEN simdiki ELSE Append(simdiki, kayit)

\* feed_ekle without its duplicate scan: the record is always appended
EkleSonrasiTaramasiz(simdiki, liste, kayit) == Append(liste, kayit)

\* feed_ekle as an upsert: a known id has its record overwritten and saved
EkleSonrasiUstuneYaz(simdiki, liste, kayit) ==
    IF VarMi(liste, kayit.id)
    THEN [i \in 1..Len(liste) |->
            IF liste[i].id = kayit.id THEN kayit ELSE liste[i]]
    ELSE Append(liste, kayit)

\* feed_ekle after the load: the file's content once the request has ended.
\* A known id returns before abonelikleri_kaydet, so the file keeps `simdiki`.
EkleSonrasi(simdiki, liste, kayit) ==
    IF VarMi(liste, kayit.id) THEN simdiki ELSE Append(liste, kayit)

\* feed_kaldir after the load: the list comprehension that is saved.
KaldirSonrasi(liste, kimlik) ==
    SelectSeq(liste, LAMBDA abone : abone.id # kimlik)

\* No request under way, abonelikler.json holding `depo`
InitStoreBosta(depo) ==
    /\ dosya = depo
    /\ pc = [p \in Procs |-> "bosta"]
    /\ abonelikler = [p \in Procs |-> <<>>]
    /\ bekleyen = [p \in Procs |-> None]
    /\ son = [islem |-> "yok", cevap |-> "yok", bayat |-> FALSE, ezilen |-> {}]

InitFeedBosta ==
    /\ f_pc = "bosta"
    /\ rota = "yok"
    /\ istek = <<>>
    /\ max_sayfa = 0
    /\ baslik = <<>>
    /\ sayfa = 0
    /\ fg = <<>>
    /\ alinanlar = <<>>
    /\ gecmis = <<>>
    /\ konu_yaniti = <<>>
    /\ f_sonuc = "yok"
    /\ http = "yok"

InitHepsiBosta ==
    /\ h_pc = "bosta"
    /\ h_liste = <<>>
    /\ h_i = 0
    /\ h_fg = <<>>
    /\ h_sonuclar = <<>>
    /\ h_cevap = "yok"

Urller == {"u1", "u2"}

InitCacheBosta ==
    /\ saat = 0
    /\ onbellek = [u \in Urller |-> <<>>]
    /\ surum = [u \in Urller |-> 0]
    /\ c_pc = [p \in Procs |-> "bosta"]
    /\ c_url = [p \in Procs |-> None]
    /\ c_son = <<>>
    /\ tamamlanan = [u \in Urller |-> <<>>]

InitStore ==
    /\ InitStoreBosta(<<>>)
    /\ InitFeedBosta
    /\ InitHepsiBosta
    /\ InitCacheBosta

\* feed_ekle with an empty form field: redirect, nothing else
FeedEkleBos(p) ==
    /\ UNCHANGED <<feedVars, hepsiVars, cacheVars>>
    /\ pc[p] = "bosta"
    /\ son' = [islem |-> "ekle_bos", cevap |-> "yonlendir", bayat |-> FALSE, ezilen |-> {}]
    /\ UNCHANGED <<dosya, pc, abonelikler, bekleyen>>

\* feed_ekle whose topic fetch raises: the exception leaves the view (500)
FeedEkleIstisna(p) ==
    /\ UNCHANGED <<feedVars, hepsiVars, cacheVars>>
    /\ pc[p] = "bosta"
    /\ son' = [islem |-> "ekle_istisna", cevap |-> "500", bayat |-> FALSE, ezilen |-> {}]
    /\ UNCHANGED <<dosya, pc, abonelikler, bekleyen>>

\* feed_ekle up to and including abonelikleri_yukle()
FeedEkleYukle(p) ==
    /\ UNCHANGED <<feedVars, hepsiVars, cacheVars>>
    /\ pc[p] = "bosta"
    /\ \E girdi \in Girdiler \ {[tur |-> "bos", kimlik |-> None]} :
       \E yanit \in BaslikYanitlari(BaslikUrlAyristir(girdi)[1], Basliklar) :
         LET ayrik == BaslikUrlAyristir(girdi)
             bilgi == BaslikBilgisiAl(yanit, ayrik[2])
         IN IF Falsy(bilgi.id) \/ Falsy(bilgi.metin)
            THEN /\ son' = [islem |-> "ekle_bulunamadi",
                            cevap |-> "hata_sayfasi", bayat |-> FALSE, ezilen |-> {}]
                 /\ UNCHANGED <<dosya, pc, abonelikler, bekleyen>>
            ELSE /\ pc' = [pc EXCEPT ![p] = "ekle"]
                 /\ abonelikler' = [abonelikler EXCEPT ![p] = dosya]
                 /\ bekleyen' = [bekleyen EXCEPT ![p] = Abone(bilgi)]
                 /\ UNCHANGED <<dosya, son>>

\* feed_ekle from the duplicate scan to the redirect
FeedEkleKaydet(p) ==
    /\ UNCHANGED <<feedVars, hepsiVars, cacheVars>>
    /\ pc[p] = "ekle"
    /\ dosya' = EkleSonrasi(dosya, abonelikler[p], bekleyen[p])
    /\ son' = [islem |-> IF VarMi(abonelikler[p], bekleyen[p].id)
                         THEN "ekle_var" ELSE "ekle_yeni",
               cevap |-> "yonlendir", bayat |-> abonelikler[p] # dosya,
               ezilen |-> Ezilen(dosya, dosya', bekleyen[p].id)]
    /\ pc' = [pc EXCEPT ![p] = "bosta"]
    /\ abonelikler' = [abonelikler EXCEPT ![p] = <<>>]
    /\ bekleyen' = [bekleyen EXCEPT ![p] = None]

\* feed_kaldir: abonelikleri_yukle()
FeedKaldirYukle(p) ==
    /\ UNCHANGED <<feedVars, hepsiVars, cacheVars>>
    /\ pc[p] = "bosta"
    /\ \E kimlik \in Ids :
         /\ pc' = [pc EXCEPT ![p] = "kaldir"]
         /\ abonelikler' = [abonelikler EXCEPT ![p] = dosya]
         /\ bekleyen' = [bekleyen EXCEPT ![p] = kimlik]
    /\ UNCHANGED <<dosya, son>>

\* feed_kaldir: the filter, abonelikleri_kaydet() and the redirect
FeedKaldirKaydet(p) ==
    /\ UNCHANGED <<feedVars, hepsiVars, cacheVars>>
    /\ pc[p] = "kaldir"
    /\ dosya' = KaldirSonrasi(abonelikler[p], bekleyen[p])
    /\ son' = [islem |-> "kaldir", cevap |-> "yonlendir",
               bayat |-> abonelikler[p] # dosya,
               ezilen |-> Ezilen(dosya, dosya', bekleyen[p])]
    /\ pc' = [pc EXCEPT ![p] = "bosta"]
    /\ abonelikler' = [abonelikler EXCEPT ![p] = <<>>]
    /\ bekleyen' = [bekleyen EXCEPT ![p] = None]

NextStore ==
    \E p \in Procs :
        \/ FeedEkleBos(p)
        \/ FeedEkleIstisna(p)
        \/ FeedEkleYukle(p)
        \/ FeedEkleKaydet(p)
        \/ FeedKaldirYukle(p)
        \/ FeedKaldirKaydet(p)

(***************************************************************************)
(* baslik_icin_feed_olustur and the two routes that serve one topic.       *)
(***************************************************************************)

\* max_sayfa=3: the default of baslik_icin_feed_olustur, and what id_ile_feed
\* passes
VarsayilanMaxSayfa == 3

\* "if len(girdiler) < 10": the page size below which pagination stops
SayfaBoyu == 10

\* The largest number of list items a page of the site is taken to hold
MaxAdet == 10

\* A page of the site, as far as the loop reads it: adet list items under
\* ul#entry-item-list, all alike but for what cesit says:
\*   "artan"      all well formed, dates ascending in document order
\*   "azalan"     all well formed, dates descending in document order
\*   "tarihsiz"   all well formed, the date text matches no DD.MM.YYYY HH:MM
\*   "id_yok" "yazar_yok" "icerik_yok" "tarih_yok"
\*                the item at KusurYeri lacks data-id / data-author /
\*                div.content / a.entry-date; the others are well formed
Cesitler ==
    {"artan", "azalan", "tarihsiz", "id_yok", "yazar_yok", "icerik_yok",
     "tarih_yok"}

Sekiller(enCok) ==
    {[adet |-> 0, cesit |-> "artan"]}
    \cup [adet : 1..enCok, cesit : Cesitler]

KusurYeri(sekil) == IF sekil.adet >= 2 THEN 2 ELSE 1

\* The i-th <li> of a page.  tarih_metni is the minute the date text names,
\* 0 when the text matches no DD.MM.YYYY HH:MM.
ListeOgesi(sekil, i) ==
    LET kusurlu == i = KusurYeri(sekil)
    IN [data_id |-> ~(kusurlu /\ sekil.cesit = "id_yok"),
        data_author |-> IF kusurlu /\ sekil.cesit = "yazar_yok"
                        THEN None ELSE "yazar",
        icerik |-> ~(kusurlu /\ sekil.cesit = "icerik_yok"),
        tarih_baglantisi |-> ~(kusurlu /\ sekil.cesit = "tarih_yok"),
        tarih_metni |-> CASE sekil.cesit = "tarihsiz" -> 0
                          [] sekil.cesit = "azalan" -> sekil.adet + 1 - i
                          [] OTHER -> i]

\* fg.add_entry(): feedgen's FeedGenerator.add_entry(feedEntry=None,
\* order='prepend') inserts the entry at index 0 of its entry list unless
\* order='append' is passed, and no call of this program passes it.
AddEntryAppend(liste, fe) == Append(liste, fe)

AddEntry(liste, fe) == <<fe>> \o liste

\* The "Bilgilendirme" entry: no entries for today
BilgiGirdisi(p) ==
    [tur |-> "bilgi", sayfa |-> p, sira |-> 0, yazar |-> "Eksi RSS",
     yayin |-> [simdi |-> TRUE, t |-> 0]]

\* The three `continue` checks of the entry loop, without the div.content one
GirdiGecerliIceriksiz(oge) == oge.data_id /\ oge.tarih_baglantisi

\* The three `continue` checks of the entry loop: data-id, div.content,
\* a.entry-date.  data-author is read and never checked.
GirdiGecerli(oge) == oge.data_id /\ oge.icerik /\ oge.tarih_baglantisi

\* One pass of "for girdi in girdiler" over item i of page p
GirdiIsle(liste, oge, p, i) ==
    IF ~GirdiGecerli(oge) THEN liste
    ELSE AddEntry(liste,
                  [tur |-> "girdi", sayfa |-> p, sira |-> i,
                   yazar |-> oge.data_author,
                   yayin |-> IF oge.tarih_metni = 0
                             THEN [simdi |-> TRUE, t |-> 0]
                             ELSE [simdi |-> FALSE, t |-> oge.tarih_metni]])

RECURSIVE SayfaIsle(_, _, _, _)
\* "for girdi in girdiler" from item i on
SayfaIsle(liste, sekil, p, i) ==
    IF i > sekil.adet THEN liste
    ELSE SayfaIsle(GirdiIsle(liste, ListeOgesi(sekil, i), p, i), sekil, p,
                   i + 1)

\* Pagination stops only on a page with no list item at all
SayfalamaDururBosSayfada(sekil) == sekil.adet = 0

\* Pagination stops on a page with SayfaBoyu list items too
SayfalamaDururEsitte(sekil) == sekil.adet <= SayfaBoyu

\* "if len(girdiler) < 10: break": girdiler is the list of <li> selected,
\* whether or not an item became a feed entry
SayfalamaDurur(sekil) == sekil.adet < SayfaBoyu

\* The test after baslik_bilgisi_al with the title left out
BaslikBulunamadiYalnizKimlik(bilgi) == Falsy(bilgi.id)

\* "if not baslik_metni or not baslik_id": no topic, return None
BaslikBulunamadi(bilgi) == Falsy(bilgi.metin) \/ Falsy(bilgi.id)

\* What the caller answers once baslik_icin_feed_olustur has ended:
\* id_ile_feed and arama_ile_feed answer 500 without a feed (as Flask does
\* for an exception that leaves the view) and the RSS otherwise; tum_feedler
\* goes on with its loop and answers later.
RotaCevabi(cagiran, sonuc) ==
    IF cagiran \in {"id", "arama"}
    THEN IF sonuc = "feed" THEN "200" ELSE "500"
    ELSE "yok"

\* The URL handed to eksi_sayfasi_al, and whether the fetch succeeded
Alinan(ana, tarihli, p, oldu) ==
    [ana |-> ana, tarihli |-> tarihli, sayfa |-> p, oldu |-> oldu]

FeedDeposu ==
    <<[id |-> "101", baslik |-> "a", url |-> Url("slug", "101"),
       slug |-> "slug"]>>

FeedBasliklari == {"a"}

InitFeed ==
    /\ InitStoreBosta(FeedDeposu)
    /\ InitFeedBosta
    /\ InitHepsiBosta
    /\ InitCacheBosta

\* The subscription's url for an id, as id_ile_feed looks it up
AboneUrl(liste, kimlik) ==
    IF VarMi(liste, kimlik)
    THEN (CHOOSE a \in {liste[i] : i \in 1..Len(liste)} : a.id = kimlik).url
    ELSE Url("yok", None)

\* id_ile_feed up to the call of baslik_icin_feed_olustur(.., max_sayfa=3)
IdIleFeedBasla ==
    /\ UNCHANGED <<storeVars, hepsiVars, cacheVars>>
    /\ f_pc = "bosta"
    /\ \E kimlik \in Ids :
         LET url == AboneUrl(dosya, kimlik)
         IN istek' = <<[url |-> IF url.tur = "yok"
                                THEN Url("baslik", kimlik) ELSE url,
                        id |-> kimlik]>>
    /\ rota' = "id"
    /\ max_sayfa' = VarsayilanMaxSayfa
    /\ f_pc' = "cozumleme"
    /\ UNCHANGED <<baslik, sayfa, fg, alinanlar, gecmis, konu_yaniti,
                   f_sonuc, http>>

\* arama_ile_feed up to the call of baslik_icin_feed_olustur(baslik_url)
AramaIleFeedBasla ==
    /\ UNCHANGED <<storeVars, hepsiVars, cacheVars>>
    /\ f_pc = "bosta"
    /\ istek' = <<[url |-> Url("arama", None), id |-> None]>>
    /\ rota' = "arama"
    /\ max_sayfa' = VarsayilanMaxSayfa
    /\ f_pc' = "cozumleme"
    /\ UNCHANGED <<baslik, sayfa, fg, alinanlar, gecmis, konu_yaniti,
                   f_sonuc, http>>

\* baslik_bilgisi_al raises: eksi_sayfasi_al re-raises and nothing between
\* it and the route catches ("if not yanit" in baslik_bilgisi_al is never
\* taken: a failed fetch raises, it does not return None)
CozumleIstisna ==
    /\ UNCHANGED <<storeVars, hepsiVars, cacheVars>>
    /\ f_pc = "cozumleme"
    /\ alinanlar' = Append(alinanlar, Alinan(istek[1].url, FALSE, 1, FALSE))
    /\ f_sonuc' = "istisna"
    /\ f_pc' = "bitti"
    /\ http' = RotaCevabi(rota, "istisna")
    /\ istek' = <<>>
    /\ UNCHANGED <<rota, max_sayfa, baslik, sayfa, fg, gecmis, konu_yaniti>>

\* The call of baslik_bilgisi_al and the "if not baslik_metni or not
\* baslik_id" after it
Cozumle ==
    /\ UNCHANGED <<storeVars, hepsiVars, cacheVars>>
    /\ f_pc = "cozumleme"
    /\ \E yanit \in BaslikYanitlari(istek[1].url, FeedBasliklari) :
         LET bilgi == BaslikBilgisiAl(yanit, istek[1].id)
         IN /\ konu_yaniti' = <<yanit>>
            /\ alinanlar' = Append(alinanlar,
                                   Alinan(istek[1].url, FALSE, 1, TRUE))
            /\ IF BaslikBulunamadi(bilgi)
               THEN /\ f_sonuc' = "None"
                    /\ f_pc' = "bitti"
                    /\ http' = RotaCevabi(rota, "None")
                    /\ UNCHANGED <<baslik, sayfa>>
               ELSE /\ baslik' = <<[metin |-> bilgi.metin, id |-> bilgi.id,
                                   son_url |-> bilgi.son_url]>>
                    /\ sayfa' = 1
                    /\ f_pc' = "sayfalama"
                    /\ UNCHANGED <<f_sonuc, http>>
    /\ istek' = <<>>
    /\ UNCHANGED <<rota, max_sayfa, fg, gecmis>>

\* One turn of "for sayfa in range(1, max_sayfa + 1)" whose fetch raises:
\* the Bilgilendirme entry is added and the feed returned
SayfaAlIstisna ==
    /\ UNCHANGED <<storeVars, hepsiVars, cacheVars>>
    /\ f_pc = "sayfalama"
    /\ alinanlar' = Append(alinanlar,
                           Alinan(baslik[1].son_url, TRUE, sayfa, FALSE))
    /\ fg' = AddEntry(fg, BilgiGirdisi(sayfa))
    /\ f_sonuc' = "feed"
    /\ f_pc' = "bitti"
    /\ http' = RotaCevabi(rota, "feed")
    /\ UNCHANGED <<rota, istek, max_sayfa, baslik, sayfa, gecmis,
                   konu_yaniti>>

\* One turn of the loop whose fetch succeeds: parse, the empty-page branch,
\* the entry loop, the page-size test, and the return once the loop ends.
\* ("if not yanit: break" is never taken: eksi_sayfasi_al returns a response
\* that passed raise_for_status, which is truthy, or raises.)
SayfaAl(sekiller) ==
    /\ UNCHANGED <<storeVars, hepsiVars, cacheVars>>
    /\ f_pc = "sayfalama"
    /\ \E sekil \in sekiller :
         /\ alinanlar' = Append(alinanlar,
                                Alinan(baslik[1].son_url, TRUE, sayfa, TRUE))
         /\ gecmis' = Append(gecmis, sekil)
         /\ fg' = IF sekil.adet = 0
                  THEN IF sayfa = 1 THEN AddEntry(fg, BilgiGirdisi(sayfa))
                       ELSE fg
                  ELSE SayfaIsle(fg, sekil, sayfa, 1)
         /\ IF sekil.adet = 0 \/ SayfalamaDurur(sekil) \/ sayfa = max_sayfa
            THEN /\ f_sonuc' = "feed"
                 /\ f_pc' = "bitti"
                 /\ http' = RotaCevabi(rota, "feed")
                 /\ UNCHANGED sayfa
            ELSE /\ sayfa' = sayfa + 1
                 /\ UNCHANGED <<f_sonuc, f_pc, http>>
    /\ UNCHANGED <<rota, istek, max_sayfa, baslik, konu_yaniti>>

NextFeed ==
    \/ IdIleFeedBasla
    \/ AramaIleFeedBasla
    \/ CozumleIstisna
    \/ Cozumle
    \/ SayfaAlIstisna
    \/ SayfaAl(Sekiller(MaxAdet))

SpecFeed == InitFeed /\ [][NextFeed]_vars

(***************************************************************************)
(* tum_feedler: the combined feed.                                         *)
(***************************************************************************)

\* "abonelikler[:10]"
HepsiSinir == 10

Ilk(liste, n) == SubSeq(liste, 1, IF Len(liste) < n THEN Len(liste) ELSE n)

RECURSIVE HepsiEkle(_, _, _)
\* "for girdi in baslik_feed.entry(): fg.add_entry(girdi)" from entry i on
HepsiEkle(liste, girdiler, i) ==
    IF i > Len(girdiler) THEN liste
    ELSE HepsiEkle(AddEntry(liste, girdiler[i]), girdiler, i + 1)

AboneKaydi(kimlik) ==
    [id |-> kimlik, baslik |-> "a", url |-> Url("slug", kimlik),
     slug |-> "slug"]

\* The stores tum_feedler is run on
HepsiDepolari ==
    {<<>>}
    \cup {<<AboneKaydi(i)>> : i \in Ids}
    \cup {<<AboneKaydi(ij[1]), AboneKaydi(ij[2])>> :
             ij \in {x \in Ids \X Ids : x[1] # x[2]}}

\* The largest page of the site in the runs of tum_feedler
HepsiMaxAdet == 2

InitHepsi ==
    /\ \E depo \in HepsiDepolari : InitStoreBosta(depo)
    /\ InitFeedBosta
    /\ InitHepsiBosta
    /\ InitCacheBosta

\* tum_feedler up to its loop
TumFeedlerBasla ==
    /\ UNCHANGED <<storeVars, feedVars, cacheVars>>
    /\ h_pc = "bosta"
    /\ h_liste' = dosya
    /\ h_i' = 1
    /\ h_fg' = <<>>
    /\ h_pc' = "dongu"
    /\ UNCHANGED <<h_sonuclar, h_cevap>>

\* One turn of "for abone in abonelikler[:10]" up to the call of
\* baslik_icin_feed_olustur(baslik_url, baslik_id); a subscription without
\* a url is passed over
HepsiCagir ==
    /\ UNCHANGED <<storeVars, cacheVars>>
    /\ h_pc = "dongu"
    /\ h_i <= Len(Ilk(h_liste, HepsiSinir))
    /\ LET abone == h_liste[h_i]
       IN IF abone.url.tur = "yok"
          THEN /\ h_i' = h_i + 1
               /\ UNCHANGED <<feedVars, h_pc>>
          ELSE /\ istek' = <<[url |-> abone.url, id |-> abone.id]>>
               /\ rota' = "hepsi"
               /\ max_sayfa' = VarsayilanMaxSayfa
               /\ f_pc' = "cozumleme"
               /\ baslik' = <<>>
               /\ sayfa' = 0
               /\ fg' = <<>>
               /\ alinanlar' = <<>>
               /\ gecmis' = <<>>
               /\ konu_yaniti' = <<>>
               /\ f_sonuc' = "yok"
               /\ h_pc' = "bekle"
               /\ UNCHANGED <<http, h_i>>
    /\ UNCHANGED <<h_liste, h_fg, h_sonuclar, h_cevap>>

\* The call has ended.  An exception leaves tum_feedler too (Flask answers
\* 500); None is passed over; a feed has its entries added to the combined
\* feed.
HepsiDon ==
    /\ UNCHANGED <<storeVars, cacheVars>>
    /\ h_pc = "bekle"
    /\ f_pc = "bitti"
    /\ h_sonuclar' = Append(h_sonuclar,
                            [id |-> h_liste[h_i].id, sonuc |-> f_sonuc,
                             girdiler |-> fg])
    /\ IF f_sonuc = "istisna"
       THEN /\ h_pc' = "bitti"
            /\ h_cevap' = "500"
            /\ UNCHANGED <<h_i, h_fg>>
       ELSE /\ h_pc' = "dongu"
            /\ h_i' = h_i + 1
            /\ h_fg' = IF f_sonuc = "feed" THEN HepsiEkle(h_fg, fg, 1)
                       ELSE h_fg
            /\ UNCHANGED h_cevap
    /\ f_pc' = "bosta"
    /\ UNCHANGED <<rota, istek, max_sayfa, baslik, sayfa, fg, alinanlar,
                   gecmis, konu_yaniti, f_sonuc, http, h_liste>>

\* The loop has ended: the combined RSS is answered
HepsiBitir ==
    /\ UNCHANGED <<storeVars, feedVars, cacheVars>>
    /\ h_pc = "dongu"
    /\ h_i > Len(Ilk(h_liste, HepsiSinir))
    /\ h_pc' = "bitti"
    /\ h_cevap' = "200"
    /\ UNCHANGED <<h_liste, h_i, h_fg, h_sonuclar>>

NextHepsi ==
    \/ TumFeedlerBasla
    \/ HepsiCagir
    \/ CozumleIstisna
    \/ Cozumle
    \/ SayfaAlIstisna
    \/ SayfaAl(Sekiller(HepsiMaxAdet))
    \/ HepsiDon
    \/ HepsiBitir

SpecHepsi == InitHepsi /\ [][NextHepsi]_vars

\* The subscription at place k of the first HepsiSinir could not be
\* assembled: its topic page could not be fetched, or named no topic
HepsiBasarisiz(k) ==
    k <= Len(h_sonuclar) /\ h_sonuclar[k].sonuc \in {"istisna", "None"}

\* C6: once tum_feedler has ended, the combined feed is answered: every
\* subscription among the first 10 was tried, one whose assembly failed
\* (topic page not fetched, or topic not found) was passed over, and the
\* combined feed holds the items of every one whose assembly succeeded.
C6_BasarisizAtlanir ==
    h_pc = "bitti" =>
        /\ h_cevap = "200"
        /\ Len(h_sonuclar) = Len(Ilk(h_liste, HepsiSinir))
        /\ \A k \in 1..Len(h_sonuclar) :
              IF HepsiBasarisiz(k) THEN TRUE
              ELSE \A i \in 1..Len(h_sonuclar[k].girdiler) :
                     \E n \in 1..Len(h_fg) :
                         h_fg[n] = h_sonuclar[k].girdiler[i]

SpecStore == InitStore /\ [][NextStore]_vars

(***************************************************************************)
(* eksi_sayfasi_al behind @onbellek.memoize(timeout=900), called by the    *)
(* request threads of the server.  memoize looks the call up in the        *)
(* SimpleCache (an entry counts while its expiry is later than time());    *)
(* on a miss it runs the function and, if that returns, stores the result  *)
(* to expire timeout seconds after the store.                              *)
(***************************************************************************)

\* @onbellek.memoize(timeout=900)
OnbellekSuresi == 900

\* The last second of the model's clock
MaxSaat == 900

\* The most versions of a page the site serves
MaxSurum == 1

\* The most fetches of one URL that reach the site
MaxAlim == 2

\* The clock moves in steps that land one second before, and on, the end
\* of an entry's life
Adimlar == {OnbellekSuresi \div 2 - 1, OnbellekSuresi \div 2}

\* The entry's expiry set one second early
OnbellekBitisErken(simdi) == simdi + OnbellekSuresi - 1

\* cache.set(key, rv, timeout=900): the expiry of the entry
OnbellekBitis(simdi) == simdi + OnbellekSuresi

\* cache.get(key) finds the entry: "expires > time()"
OnbellekteVar(u) == onbellek[u] # <<>> /\ onbellek[u][1].bitis > saat

Sitede(u) == {q \in Procs : c_pc[q] = "sitede" /\ c_url[q] = u}

InitCache ==
    /\ InitStoreBosta(<<>>)
    /\ InitFeedBosta
    /\ InitHepsiBosta
    /\ InitCacheBosta

\* time() moves on
SaatIlerle ==
    /\ UNCHANGED <<storeVars, feedVars, hepsiVars>>
    /\ \E d \in Adimlar :
         /\ saat + d <= MaxSaat
         /\ saat' = saat + d
    /\ UNCHANGED <<onbellek, surum, c_pc, c_url, c_son, tamamlanan>>

\* The site's page at a URL changes (a new entry is written)
SiteDegis(u) ==
    /\ UNCHANGED <<storeVars, feedVars, hepsiVars>>
    /\ surum[u] < MaxSurum
    /\ surum' = [surum EXCEPT ![u] = surum[u] + 1]
    /\ UNCHANGED <<saat, onbellek, c_pc, c_url, c_son, tamamlanan>>

\* A call of eksi_sayfasi_al(u) begins: memoize's lookup.  A hit returns
\* the stored response at once; a miss goes on to the site.
CagriBasla(p, u) ==
    /\ UNCHANGED <<storeVars, feedVars, hepsiVars>>
    /\ c_pc[p] = "bosta"
    /\ IF OnbellekteVar(u)
       THEN /\ c_son' = <<[url |-> u, basla |-> saat,
                           onceki |-> Len(tamamlanan[u]), isabet |-> TRUE,
                           yanit |-> onbellek[u][1].yanit]>>
            /\ UNCHANGED <<c_pc, c_url>>
       ELSE /\ Len(tamamlanan[u]) + Cardinality(Sitede(u)) < MaxAlim
            /\ c_son' = <<[url |-> u, basla |-> saat,
                           onceki |-> Len(tamamlanan[u]), isabet |-> FALSE,
                           yanit |-> [url |-> u, surum |-> -1]]>>
            /\ c_pc' = [c_pc EXCEPT ![p] = "sitede"]
            /\ c_url' = [c_url EXCEPT ![p] = u]
    /\ UNCHANGED <<saat, onbellek, surum, tamamlanan>>

\* scraper.get succeeds and raise_for_status passes: the response is
\* returned and memoize stores it
CagriBitir(p) ==
    /\ UNCHANGED <<storeVars, feedVars, hepsiVars>>
    /\ c_pc[p] = "sitede"
    /\ LET u == c_url[p]
           yanit == [url |-> u, surum |-> surum[u]]
       IN /\ onbellek' = [onbellek EXCEPT
                            ![u] = <<[yanit |-> yanit,
                                      bitis |-> OnbellekBitis(saat)]>>]
          /\ tamamlanan' = [tamamlanan EXCEPT
                              ![u] = Append(tamamlanan[u],
                                            [t |-> saat, yanit |-> yanit])]
    /\ c_pc' = [c_pc EXCEPT ![p] = "bosta"]
    /\ c_url' = [c_url EXCEPT ![p] = None]
    /\ UNCHANGED <<saat, surum, c_son>>

\* scraper.get or raise_for_status raises: logged and re-raised, nothing
\* is stored
CagriIstisna(p) ==
    /\ UNCHANGED <<storeVars, feedVars, hepsiVars>>
    /\ c_pc[p] = "sitede"
    /\ c_pc' = [c_pc EXCEPT ![p] = "bosta"]
    /\ c_url' = [c_url EXCEPT ![p] = None]
    /\ UNCHANGED <<saat, onbellek, surum, c_son, tamamlanan>>

NextCache ==
    \/ SaatIlerle
    \/ \E u \in Urller : SiteDegis(u)
    \/ \E p \in Procs, u \in Urller : CagriBasla(p, u)
    \/ \E p \in Procs : CagriBitir(p)
    \/ \E p \in Procs : CagriIstisna(p)

SpecCache == InitCache /\ [][NextCache]_vars

\* The fetches of the last call's URL that had succeeded before it began
\* and are less than OnbellekSuresi seconds old at its beginning
TazeAlimlar ==
    {k \in 1..c_son[1].onceki :
        c_son[1].basla < tamamlanan[c_son[1].url][k].t + 900}

SayfaAlindi(k) ==
    \E i \in 1..Len(alinanlar) :
        alinanlar[i].tarihli /\ alinanlar[i].sayfa = k

\* The positions in fg of the entries made from item j of page k
GirdiYerleri(k, j) ==
    {i \in 1..Len(fg) :
        fg[i].tur = "girdi" /\ fg[i].sayfa = k /\ fg[i].sira = j}

\* The positions in fg of the entries made from page k
SayfaGirdileri(k) ==
    {i \in 1..Len(fg) : fg[i].tur = "girdi" /\ fg[i].sayfa = k}

FeedDondu == f_pc = "bitti" /\ f_sonuc = "feed"

C4_CikarilanEsik ==
    \A k \in 1..Len(gecmis) :
        Cardinality(SayfaGirdileri(k)) < 10 =>
            \A j \in (k + 1)..(VarsayilanMaxSayfa + 1) : ~SayfaAlindi(j)

\* C4 as amended: a page that holds fewer than 10 list items, whether or
\* not each became a feed item, is followed by no further page fetch.
C4_HamEsik ==
    \A k \in 1..Len(gecmis) :
        gecmis[k].adet < 10 =>
            \A j \in (k + 1)..(VarsayilanMaxSayfa + 1) : ~SayfaAlindi(j)

\* C4 witness: page 1 held 9 list items of which 8 became feed items,
\* max_sayfa allowed two more pages, and the feed was returned after it.
C4_Tanik ==
    /\ FeedDondu
    /\ max_sayfa = 3
    /\ Len(gecmis) = 1
    /\ gecmis[1] = [adet |-> 9, cesit |-> "id_yok"]
    /\ Cardinality(SayfaGirdileri(1)) = 8
    /\ Len(alinanlar) = 2

\* C5: when the fetch of page k > 1 fails after pages 1..k-1 succeeded, the
\* returned feed holds the items made from pages 1..k-1 and nothing else.
C5_KirpilmisFeed ==
    (/\ FeedDondu
     /\ Len(alinanlar) >= 3
     /\ ~alinanlar[Len(alinanlar)].oldu)
    => /\ \A i \in 1..Len(fg) :
            fg[i].tur = "girdi" /\ fg[i].sayfa \in 1..Len(gecmis)
       /\ \A k \in 1..Len(gecmis) :
            \A j \in 1..gecmis[k].adet :
                gecmis[k].cesit \in {"artan", "azalan", "tarihsiz"}
                    => GirdiYerleri(k, j) # {}

\* a is encountered before b: an earlier page, or the same page and earlier
\* in document order
OnceKarsilasilan(a, b) ==
    a.sayfa < b.sayfa \/ (a.sayfa = b.sayfa /\ a.sira < b.sira)

\* C7 as claimed: in the returned feed's item sequence the item of an entry
\* encountered earlier precedes the item of one encountered later.
C7_KarsilasmaSirasi ==
    FeedDondu =>
        \A a, b \in 1..Len(fg) :
            (fg[a].tur = "girdi" /\ fg[b].tur = "girdi" /\ a < b)
                => OnceKarsilasilan(fg[a], fg[b])

\* C7 as amended: the returned feed's item sequence is in reverse encounter
\* order, whatever the timestamps: the item of an entry encountered later
\* precedes the item of one encountered earlier.
C7_TersKarsilasmaSirasi ==
    FeedDondu =>
        \A a, b \in 1..Len(fg) :
            (fg[a].tur = "girdi" /\ fg[b].tur = "girdi" /\ a < b)
                => OnceKarsilasilan(fg[b], fg[a])

\* C7 witness: one page [A@later, B@earlier] in document order; the feed
\* holds B's item first and A's second.
C7_Tanik ==
    /\ FeedDondu
    /\ gecmis = <<[adet |-> 2, cesit |-> "azalan"]>>
    /\ Len(fg) = 2
    /\ fg[1].sira = 2 /\ fg[1].yayin.t = 1
    /\ fg[2].sira = 1 /\ fg[2].yayin.t = 2

\* The list items of a page that carry all four of data-id, data-author,
\* div.content and a.entry-date
TamOgeler(sekil) ==
    {j \in 1..sekil.adet :
        ~(j = KusurYeri(sekil)
          /\ sekil.cesit \in {"id_yok", "yazar_yok", "icerik_yok",
                               "tarih_yok"})}

\* The list items of a page that carry data-id, div.content and a.entry-date
YazarsizTamOgeler(sekil) ==
    {j \in 1..sekil.adet :
        ~(j = KusurYeri(sekil)
          /\ sekil.cesit \in {"id_yok", "icerik_yok", "tarih_yok"})}

\* C8 as claimed: of a page's list items, those lacking any of data-id,
\* data-author, div.content, a.entry-date make no feed item, and every
\* other makes exactly one.
C8_EksikAtlanir ==
    \A k \in 1..Len(gecmis) :
        \A j \in 1..gecmis[k].adet :
            Cardinality(GirdiYerleri(k, j)) =
                IF j \in TamOgeler(gecmis[k]) THEN 1 ELSE 0

\* C8 as amended: of a page's list items, those lacking any of data-id,
\* div.content, a.entry-date make no feed item and do not end the page;
\* every other makes exactly one, an item lacking only data-author
\* included (its feed item has no author and no title).
C8_YazarsizEksikAtlanir ==
    \A k \in 1..Len(gecmis) :
        \A j \in 1..gecmis[k].adet :
            /\ Cardinality(GirdiYerleri(k, j)) =
                   IF j \in YazarsizTamOgeler(gecmis[k]) THEN 1 ELSE 0
            /\ \A i \in GirdiYerleri(k, j) :
                   fg[i].yazar = None
                       <=> (gecmis[k].cesit = "yazar_yok"
                            /\ j = KusurYeri(gecmis[k]))

\* C8 witness: a page of 3 well-formed items and 1 lacking data-author has
\* been processed and the feed holds 4 items.
C8_Tanik ==
    /\ FeedDondu
    /\ gecmis = <<[adet |-> 4, cesit |-> "yazar_yok"]>>
    /\ Cardinality(SayfaGirdileri(1)) = 4

\* The topic page names no topic for the caller: no h1#title, an empty
\* title, or (when the caller passed no id) neither data-id nor --digits in
\* the final URL.  id_ile_feed always passes an id, arama_ile_feed never.
KonuBelirsiz(yanit) ==
    \/ ~yanit.h1
    \/ yanit.metin = ""
    \/ (rota = "arama" /\ yanit.data_id = None
           /\ yanit.son_url.kimlik = None)

\* C10: a topic page with no title element, an empty title or no
\* determinable identifier makes the assembler return None after exactly
\* one fetch, none of them date-filtered, and the id route answer 500; None
\* is returned only from resolving and nothing follows it but the route's
\* answer; once pagination has started the assembler returns a feed.
C10_BasarisizlikYutucu ==
    [][/\ (konu_yaniti' # <<>> /\ KonuBelirsiz(konu_yaniti'[1]))
           => /\ f_pc' = "bitti"
              /\ f_sonuc' = "None"
              /\ Len(alinanlar') = 1
              /\ ~alinanlar'[1].tarihli
              /\ fg' = <<>>
              /\ rota' = "id" => http' = "500"
       /\ (f_sonuc # "None" /\ f_sonuc' = "None") => f_pc = "cozumleme"
       /\ f_sonuc = "None"
           => /\ f_sonuc' = "None"
              /\ f_pc' = "bitti"
              /\ alinanlar' = alinanlar
              /\ fg' = fg
       /\ f_pc = "sayfalama"
           => /\ f_pc' \in {"sayfalama", "bitti"}
              /\ f_pc' = "bitti" => f_sonuc' = "feed"
       /\ (f_sonuc' = "feed" /\ rota' = "id") => http' = "200"]_vars

\* C10 witness: the id route fetched a topic page with an empty title, the
\* assembler returned None after that one fetch, and the route answered 500.
C10_Tanik ==
    /\ rota = "id"
    /\ konu_yaniti # <<>>
    /\ konu_yaniti[1].h1
    /\ konu_yaniti[1].metin = ""
    /\ f_sonuc = "None"
    /\ Len(alinanlar) = 1
    /\ http = "500"

(***************************************************************************)
(* Claims about the subscription store.                                    *)
(***************************************************************************)

\* C1: whatever the interleaving of the load and save steps of add and
\* remove requests, abonelikler.json never holds two subscriptions with the
\* same identifier.
C1_KimliklerTekil ==
    \A i, j \in 1..Len(dosya) : i # j => dosya[i].id # dosya[j].id

\* C1 witness: an add saved a list built from a stale load (another request
\* saved in between) and the file holds that list.
C1_Tanik ==
    /\ son.islem = "ekle_yeni"
    /\ son.bayat
    /\ Len(dosya) >= 1

\* C2: an add whose resolved identifier is already in the store, run with no
\* other request's step between its load and its end (so the list it loaded
\* is the file's content), leaves the file exactly as it was.
C2_EklemeEtkisiz ==
    [][\A p \in Procs :
         (/\ pc[p] = "ekle"
          /\ pc'[p] = "bosta"
          /\ abonelikler[p] = dosya
          /\ VarMi(dosya, bekleyen[p].id)) => dosya' = dosya]_storeVars

\* C2 witness: an add of a known identifier has ended, not interleaved, on a
\* store of two subscriptions.
C2_Tanik ==
    /\ son.islem = "ekle_var"
    /\ ~son.bayat
    /\ Len(dosya) = 2

\* The list a pending request p writes when it saves: feed_ekle's loaded list
\* with its record appended, feed_kaldir's loaded list filtered.
Yazilacak(p) ==
    IF pc[p] = "ekle" THEN Append(abonelikler[p], bekleyen[p])
    ELSE KaldirSonrasi(abonelikler[p], bekleyen[p])

\* Request p is at its save: a remove, or an add whose scan of the loaded
\* list does not find its identifier.
Kaydeder(p) ==
    \/ pc[p] = "kaldir"
    \/ pc[p] = "ekle" /\ ~VarMi(abonelikler[p], bekleyen[p].id)

\* C11: when a request saves, the file becomes exactly the list that request
\* computed from the list it loaded.  If another request saved after that
\* load (both had loaded before either saved), what the other request
\* changed is lost: an identifier it added that the saver's list lacks is
\* gone from the file, an identifier it removed that the saver's list holds
\* is back.
C11_SonYazanKazanir ==
    [][\A p \in Procs :
         (Kaydeder(p) /\ pc'[p] = "bosta") =>
            /\ dosya' = Yazilacak(p)
            /\ \A k \in Kimlikler(dosya) \ Kimlikler(Yazilacak(p)) :
                  ~VarMi(dosya', k)
            /\ \A k \in Kimlikler(Yazilacak(p)) \ Kimlikler(dosya) :
                  VarMi(dosya', k)]_storeVars

\* C11 witness: two adds of distinct topics loaded the empty store before
\* either saved, both have ended, and the file holds only the record of the
\* add that saved last: the other topic is lost.
C11_Tanik ==
    /\ son.islem = "ekle_yeni"
    /\ son.bayat
    /\ son.ezilen # {}
    /\ Len(dosya) = 1
    /\ \A p \in Procs : pc[p] = "bosta"

====
